---- MODULE Spec2Model ----
(***************************************************************************)
(* A model of the document search service: the retrying Google Drive       *)
(* handler (src/storage/drive.py), the Gemini searcher and its temporary   *)
(* files, response repair and cumulative-budget filter                     *)
(* (src/search/gemini_searcher.py) and the hybrid searcher                 *)
(* (src/search/hybrid_searcher.py).  One request runs per behaviour: the   *)
(* caller invokes one entry point and the model follows it to its end.     *)
(* Scores are integers in hundredths (0.90 is 90, 2.0 is 200).             *)
(***************************************************************************)
EXTENDS Integers, Sequences, FiniteSets, TLC

\* ---- program constants ----
max_retries == 5
TOP_P_THRESHOLD == 200
T_MIN == 90

\* ---- bounds of the model ----
MaxDocs == 2
PageSize == 1
MaxCands == 3
MaxChunks == 2
MaxK == 3

DriveOps == {"upload_file", "list_files", "download_file", "update_metadata", "get_metadata", "delete_file"}
FailKinds == {"transient", "http4xx", "other"}
Scores == {85, 90, 100, 110, 250}

VARIABLES
  pc,            \* position of the request: "idle", a search step, "drive", "h_ready", "done"
  api,           \* the entry point called: "none", "drive", "search", "hybrid"
  outcome,       \* how the entry point ended: "none", "returned", "raised", "cancelled"
  folder,        \* number of documents in the Drive folder (documents are 1..folder)
  dop,           \* Drive operation in progress, "none" when no call is active
  dpc,           \* position inside the Drive operation
  retry_count,   \* the operation's retry_count local
  attempts,      \* iterations of the retry loop started (history)
  waits,         \* backoff sleeps started (history)
  tfails,        \* transient failures seen by the operation (history)
  hfails,        \* non-transient failures seen by the operation (history)
  lastFail,      \* kind of the latest failure of a remote call, "none" before any
  dret,          \* what the operation returned: "none", "value", "True", "False", "None"
  results,       \* list_files: the results local
  page_token,    \* list_files: pages fetched so far in this attempt (0 is None)
  filesCreated,  \* files the document service has created for this upload_file call
  listed,        \* search: list_files has returned its listing
  drive_files,   \* search: the listing
  fileIdx,       \* search: index of the file whose download is awaited
  temp_files,    \* search: temp files of the downloaded documents, in order
  temp_path,     \* search: the temp_path local (-1 unbound, 0 the query file, i document i)
  upIdx,         \* search: index of the next temp file to upload to the provider
  disk,          \* temporary files present on disk
  created,       \* temporary files this request created (history)
  response,      \* search: the provider's response text, a sequence of tokens
  pending,       \* search: the outcome the try block ended with, before finally runs
  sresults,      \* search: the list search returns
  drive_failed,  \* a remote call of a Drive operation of this request has failed (history)
  provider_fail, \* search: kind of the failure of a provider call, "none" when none failed
  chunks,        \* hybrid: number of chunks in the IndexStore's cached metadata
  tfidf,         \* hybrid: self._tfidf, "none", "unfitted" or "fitted"
  tfidf_rows,    \* hybrid: rows of self._tfidf_matrix, -1 when it is None
  hk,            \* hybrid: the k of the call
  hsem,          \* hybrid: inner product of the query with each chunk's embedding
  hkw,           \* hybrid: TF-IDF similarity of the query with each chunk
  halpha,        \* hybrid: HYBRID_ALPHA in percent
  hresults,      \* hybrid: the list HybridSearcher.search returns
  gresults,      \* grouper: the results list passed to group_results_by_source
  grouped,       \* grouper: the list group_results_by_source returned
  regrouped,     \* grouper: what it returned when applied to that list again
  index_cached,  \* indexer: the IndexStore holds an index and metadata in its cache
  meta_chunks,   \* indexer: metadata["chunks"] of the cached metadata, the chunk records
  ndocs,         \* indexer: documents handed to the index builder in this build
  request,       \* slack: the timestamp and signature headers of the request, as verification finds them
  route,         \* slack: the route that received the request, "none", "events" or "commands"
  body_type,     \* slack: the event type of the body, or the slash command
  verified,      \* slack: verify_slack_request has returned True for this request
  http,          \* slack: what the route answered, "none" before it answers
  task,          \* slack: the search task, "none", "running", "ended", "cancelled" or "crashed"
  k_retry,       \* slack: retry_count of _async_search_and_respond
  k_attempts,    \* slack: iterations of its loop started (history)
  k_waits,       \* slack: backoff sleeps started (history)
  k_last,        \* slack: kind of the latest exception of an attempt, "none" before any
  channel,       \* slack: the messages posted to the channel, in order
  remote,        \* loop: the remote service the first request's task is calling, "none" before
  loop_thread,   \* loop: "free" when the event-loop thread can run a ready task, "in_call" while it executes a synchronous call
  other_steps,   \* loop: steps the other request's task has taken during the call
  smeta,         \* search: the metadata dict of each returned result, in result order
  index_ntotal,  \* indexer: vectors in the cached FAISS index
  blob_index,    \* indexer: vectors in the stored index blob, -1 when there is no blob
  blob_meta      \* indexer: chunk records in the stored metadata blob, -1 when there is no blob

dvars == <<dop, dpc, retry_count, attempts, waits, tfails, hfails, lastFail, dret, results, page_token, filesCreated>>
svars == <<listed, drive_files, fileIdx, temp_files, temp_path, upIdx, disk, created, response, pending, sresults, drive_failed, provider_fail>>
hvars == <<chunks, tfidf, tfidf_rows, hk, hsem, hkw, halpha, hresults>>
gvars == <<gresults, grouped, regrouped>>
bvars == <<index_cached, meta_chunks, ndocs>>
kvars == <<request, route, body_type, verified, http, task, k_retry, k_attempts, k_waits, k_last, channel>>
cvars == <<remote, loop_thread, other_steps>>
mvars == <<smeta>>
ivars == <<index_ntotal, blob_index, blob_meta>>
vars == <<pc, api, outcome, folder, dvars, svars, hvars, gvars, bvars, kvars, cvars, mvars, ivars>>

\* ------------------------------------------------------------------------
\* GoogleDriveHandler: the retry loop shared by the six operations
\* ------------------------------------------------------------------------

\* except (HttpError, BrokenPipeError, ConnectionError): every HttpError is
\* caught, whatever its status, together with the connection errors.
Caught(kind) == kind \in {"transient", "http4xx"}

RetriesExhausted_early(rc) == rc >= max_retries - 1
\* if retry_count == max_retries: raise
RetriesExhausted(rc) == rc = max_retries

\* while retry_count < max_retries
LoopGuard(rc) == rc < max_retries

\* the documents of page p of the folder listing, and whether a nextPageToken follows
PageFiles(p) == [i \in 1 .. (IF p * PageSize <= folder THEN PageSize ELSE folder - (p - 1) * PageSize) |-> (p - 1) * PageSize + i]
HasNextPage(p) == p * PageSize < folder

\* the start of a call: locals initialised, loop entered, first attempt under way
DriveStart(op) ==
  /\ dop' = op
  /\ dpc' = "attempting"
  /\ retry_count' = 0
  /\ attempts' = 1
  /\ waits' = 0
  /\ tfails' = 0
  /\ hfails' = 0
  /\ lastFail' = "none"
  /\ dret' = "none"
  /\ results' = <<>>
  /\ page_token' = 0
  /\ filesCreated' = 0

\* the caller has taken the result: no call is active
DriveReset ==
  /\ dop' = "none"
  /\ dpc' = "idle"
  /\ retry_count' = 0
  /\ attempts' = 0
  /\ waits' = 0
  /\ tfails' = 0
  /\ hfails' = 0
  /\ lastFail' = "none"
  /\ dret' = "none"
  /\ results' = <<>>
  /\ page_token' = 0
  /\ filesCreated' = 0

\* the remote call of the current attempt succeeds
DriveCallOk ==
  /\ dpc = "attempting"
  /\ UNCHANGED <<api, pc, outcome, folder, svars, hvars, bvars, kvars, cvars, mvars, ivars, gvars, dop, retry_count, attempts, waits, tfails, hfails, lastFail>>
  /\ CASE dop = "upload_file" ->
            \* files().create succeeded; permissions().create follows
            /\ filesCreated' = filesCreated + 1
            /\ dpc' = "perm"
            /\ UNCHANGED <<dret, results, page_token>>
       [] dop = "list_files" ->
            /\ results' = results \o PageFiles(page_token + 1)
            /\ UNCHANGED filesCreated
            /\ IF HasNextPage(page_token + 1)
                 THEN /\ page_token' = page_token + 1
                      /\ UNCHANGED <<dpc, dret>>
                 ELSE /\ page_token' = 0
                      /\ dpc' = "returned"
                      /\ dret' = "value"
       [] dop = "delete_file" ->
            /\ dpc' = "returned"
            /\ dret' = "True"
            /\ UNCHANGED <<results, page_token, filesCreated>>
       [] OTHER ->
            /\ dpc' = "returned"
            /\ dret' = "value"
            /\ UNCHANGED <<results, page_token, filesCreated>>

\* upload_file: permissions().create succeeds and the call returns the file details
DrivePermOk ==
  /\ dpc = "perm"
  /\ dpc' = "returned"
  /\ dret' = "value"
  /\ UNCHANGED <<api, pc, outcome, folder, svars, hvars, bvars, kvars, cvars, mvars, ivars, gvars, dop, retry_count, attempts, waits, tfails, hfails, lastFail, results, page_token, filesCreated>>

\* an exception leaves the operation: the outer except Exception re-raises,
\* except in delete_file, which returns False
DriveLeave ==
  IF dop = "delete_file"
    THEN dpc' = "returned" /\ dret' = "False"
    ELSE dpc' = "raised" /\ UNCHANGED dret

\* a remote call of the current attempt fails with an error of the given kind
DriveCallFail(kind) ==
  /\ dpc \in {"attempting", "perm"}
  /\ lastFail' = kind
  /\ tfails' = IF kind = "transient" THEN tfails + 1 ELSE tfails
  /\ hfails' = IF kind = "transient" THEN hfails ELSE hfails + 1
  /\ drive_failed' = TRUE
  /\ UNCHANGED <<api, pc, outcome, folder, hvars, bvars, kvars, cvars, mvars, ivars, gvars, dop, attempts, results, page_token, filesCreated>>
  /\ UNCHANGED <<listed, drive_files, fileIdx, temp_files, temp_path, upIdx, disk, created, response, pending, sresults, provider_fail>>
  /\ IF Caught(kind)
       THEN /\ retry_count' = retry_count + 1
            /\ IF RetriesExhausted(retry_count + 1)
                 THEN DriveLeave /\ UNCHANGED waits
                 ELSE /\ dpc' = "backoff"
                      /\ waits' = waits + 1
                      /\ UNCHANGED dret
       ELSE /\ DriveLeave
            /\ UNCHANGED <<retry_count, waits>>

\* results = [] at the start of every attempt of list_files: the pages an
\* interrupted attempt fetched are dropped
RetryResults_kept(rs) == rs
RetryResults(rs) == <<>>

\* asyncio.sleep(wait_time) elapses and the loop guard is evaluated again
DriveWake ==
  /\ dpc = "backoff"
  /\ UNCHANGED <<api, pc, outcome, folder, svars, hvars, bvars, kvars, cvars, mvars, ivars, gvars, dop, retry_count, waits, tfails, hfails, lastFail, filesCreated>>
  /\ IF LoopGuard(retry_count)
       THEN /\ dpc' = "attempting"
            /\ attempts' = attempts + 1
            /\ results' = RetryResults(results)
            /\ page_token' = 0
            /\ UNCHANGED dret
       ELSE \* the loop ends without a return: delete_file returns False, the others None
            /\ dpc' = "returned"
            /\ dret' = IF dop = "delete_file" THEN "False" ELSE "None"
            /\ UNCHANGED <<attempts, results, page_token>>

\* the task is cancelled while suspended in asyncio.sleep: CancelledError is
\* a BaseException and passes every except Exception
DriveCancel ==
  /\ dpc = "backoff"
  /\ dpc' = "cancelled"
  /\ UNCHANGED <<api, pc, outcome, folder, svars, hvars, bvars, kvars, cvars, mvars, ivars, gvars, dop, retry_count, attempts, waits, tfails, hfails, lastFail, dret, results, page_token, filesCreated>>

\* a caller (GeminiProcessor, a script) awaits one Drive operation directly
InvokeDrive(op) ==
  /\ pc = "idle"
  /\ pc' = "drive"
  /\ api' = "drive"
  /\ DriveStart(op)
  /\ UNCHANGED <<outcome, folder, svars, hvars, bvars, kvars, cvars, mvars, ivars, gvars>>

DriveDone ==
  /\ pc = "drive"
  /\ dpc \in {"returned", "raised", "cancelled"}
  /\ pc' = "done"
  /\ outcome' = dpc
  /\ UNCHANGED <<api, folder, hvars, bvars, kvars, cvars, mvars, ivars, gvars, dvars, svars>>

\* ------------------------------------------------------------------------
\* GeminiSearcher: the provider's response text and its repair
\* ------------------------------------------------------------------------

\* The response text is a sequence of tokens, each a run of characters:
\*   FJ  ```json        F   ```          NL  a newline       SP  a blank
\*   BSN a backslash followed by n       CTL a control character below 32
\*   LB  [    RB  ]    CM  ,             NUM a number literal
\*   TXT words without quotes or brackets
\*   OBJ a complete object {"text": .., "score": .., ..} (id, score)
\*   TOBJ an object cut off before its closing brace
\*   ESC a backslash escape outside any string, as json.dumps produces
Tok(k) == [k |-> k, id |-> 0, score |-> 0]
\* the value of response before generate_content has answered
NoResponse == <<Tok("none")>>
Obj(i, s) == [k |-> "OBJ", id |-> i, score |-> s]

\* text.replace('```json', '').replace('```', ''); text.replace('\\n', ' ');
\* dropping the control characters; json.dumps(text)[1:-1]; text.strip()
StripFences(text) == SelectSeq(text, LAMBDA t : t.k \notin {"FJ", "F"})
ReplaceEscapedNewlines(text) == [i \in 1 .. Len(text) |-> IF text[i].k = "BSN" THEN Tok("SP") ELSE text[i]]
StripControl(text) == SelectSeq(text, LAMBDA t : t.k # "CTL")
\* json.dumps escapes every quote, backslash and newline of the text
DumpsEscape(text) == [i \in 1 .. Len(text) |-> IF text[i].k \in {"OBJ", "TOBJ", "NL", "BSN", "ESC"} THEN Tok("ESC") ELSE text[i]]
\* blanks and newlines are whitespace to str.strip and to json.loads
IsWs(tok) == tok.k \in {"SP", "NL"}
RECURSIVE LStrip(_)
LStrip(text) == IF text # <<>> /\ IsWs(Head(text)) THEN LStrip(Tail(text)) ELSE text
RECURSIVE RStrip(_)
RStrip(text) == IF text # <<>> /\ IsWs(text[Len(text)]) THEN RStrip(SubSeq(text, 1, Len(text) - 1)) ELSE text
Strip(text) == RStrip(LStrip(text))

_clean_json_response(text) == Strip(DumpsEscape(StripControl(ReplaceEscapedNewlines(StripFences(text)))))

\* json.loads over tokens.  A value is a number, an object or an array of
\* values; whitespace between tokens is skipped; anything else, or input
\* left after the value, is a JSONDecodeError.
SkipWs(t, i) ==
  CHOOSE j \in i .. Len(t) + 1 :
    (\A m \in i .. j - 1 : IsWs(t[m])) /\ (j = Len(t) + 1 \/ ~IsWs(t[j]))
ParseFail == [ok |-> FALSE, next |-> 0, kind |-> "error", id |-> 0, score |-> 0, items |-> <<>>]
Item(v) == [kind |-> v.kind, id |-> v.id, score |-> v.score]

RECURSIVE ParseValue(_, _)
RECURSIVE ParseItems(_, _, _)
\* the value that starts at the first non-blank token at or after i
ParseValue(t, i) ==
  LET j == SkipWs(t, i) IN
  IF j > Len(t) THEN ParseFail
  ELSE IF t[j].k = "NUM" THEN [ok |-> TRUE, next |-> j + 1, kind |-> "number", id |-> 0, score |-> 0, items |-> <<>>]
  ELSE IF t[j].k = "OBJ" THEN [ok |-> TRUE, next |-> j + 1, kind |-> "dict", id |-> t[j].id, score |-> t[j].score, items |-> <<>>]
  ELSE IF t[j].k = "LB" THEN
    LET m == SkipWs(t, j + 1) IN
    IF m <= Len(t) /\ t[m].k = "RB"
      THEN [ok |-> TRUE, next |-> m + 1, kind |-> "list", id |-> 0, score |-> 0, items |-> <<>>]
      ELSE ParseItems(t, j + 1, <<>>)
  ELSE ParseFail
\* the elements of an array whose next element starts at i, up to its ]
ParseItems(t, i, acc) ==
  LET v == ParseValue(t, i) IN
  IF ~v.ok THEN ParseFail
  ELSE LET m == SkipWs(t, v.next) IN
       IF m > Len(t) THEN ParseFail
       ELSE IF t[m].k = "CM" THEN ParseItems(t, m + 1, Append(acc, Item(v)))
       ELSE IF t[m].k = "RB" THEN [ok |-> TRUE, next |-> m + 1, kind |-> "list", id |-> 0, score |-> 0, items |-> Append(acc, Item(v))]
       ELSE ParseFail

JsonLoads(t) ==
  LET v == ParseValue(t, 1) IN
  IF v.ok /\ SkipWs(t, v.next) = Len(t) + 1 THEN v ELSE ParseFail

\* response.text.split('\n')
RECURSIVE SplitLines(_, _)
SplitLines(text, cur) ==
  IF text = <<>> THEN <<cur>>
  ELSE IF Head(text).k = "NL" THEN <<cur>> \o SplitLines(Tail(text), <<>>)
  ELSE SplitLines(Tail(text), Append(cur, Head(text)))

Has(line, k) == \E i \in 1 .. Len(line) : line[i].k = k

\* the line scan: lines are collected from the first that holds a [ and the
\* scan stops at the first line that holds a ]
RECURSIVE LineScan(_, _, _)
LineScan(lines, in_json, json_text) ==
  IF lines = <<>> THEN json_text
  ELSE LET line == Head(lines)
           inj == in_json \/ Has(line, "LB")
           acc == IF inj THEN Append(json_text, line) ELSE json_text
       IN IF Has(line, "RB") THEN acc ELSE LineScan(Tail(lines), inj, acc)

\* '\n'.join(json_text)
RECURSIVE JoinLines(_)
JoinLines(lines) ==
  IF lines = <<>> THEN <<>>
  ELSE IF Len(lines) = 1 THEN Head(lines)
  ELSE Head(lines) \o <<Tok("NL")>> \o JoinLines(Tail(lines))

\* results = json.loads(cleaned_response), and on JSONDecodeError the line scan
ParseResponse(text) ==
  LET first == JsonLoads(_clean_json_response(text)) IN
  IF first.ok THEN first
  ELSE JsonLoads(JoinLines(LineScan(SplitLines(text, <<>>), FALSE, <<>>)))

\* ------------------------------------------------------------------------
\* GeminiSearcher: threshold, sort and cumulative budget
\* ------------------------------------------------------------------------

\* [result for result in results if result.get('score', 0) >= 0.90]
Threshold_none(items) == items
Threshold(items) == SelectSeq(items, LAMBDA r : r.score >= T_MIN)

\* sorted(filtered_results, key=score, reverse=True): a stable sort, equal
\* scores keep their order.  Insertion of r behind every element whose score
\* is at least its own.
RECURSIVE InsertDesc(_, _)
InsertDesc(sorted, r) ==
  IF sorted = <<>> THEN <<r>>
  ELSE IF Head(sorted).score >= r.score THEN <<Head(sorted)>> \o InsertDesc(Tail(sorted), r)
  ELSE <<r>> \o sorted
RECURSIVE SortDesc_from(_, _)
SortDesc_from(items, acc) == IF items = <<>> THEN acc ELSE SortDesc_from(Tail(items), InsertDesc(acc, Head(items)))
Reverse(s) == [i \in 1 .. Len(s) |-> s[Len(s) + 1 - i]]
RECURSIVE InsertAsc(_, _)
InsertAsc(sorted, r) ==
  IF sorted = <<>> THEN <<r>>
  ELSE IF Head(sorted).score <= r.score THEN <<Head(sorted)>> \o InsertAsc(Tail(sorted), r)
  ELSE <<r>> \o sorted
RECURSIVE SortAsc_from(_, _)
SortAsc_from(items, acc) == IF items = <<>> THEN acc ELSE SortAsc_from(Tail(items), InsertAsc(acc, Head(items)))
SortedByScore_reversed(items) == Reverse(SortAsc_from(items, <<>>))
SortedByScore(items) == SortDesc_from(items, <<>>)

\* the walk: a candidate is appended while cumulative_score + score stays
\* within TOP_P_THRESHOLD; the first that does not fit ends the loop (break)
RECURSIVE BudgetWalk_before(_, _)
BudgetWalk_before(items, cumulative_score) ==
  IF items = <<>> THEN <<>>
  ELSE IF cumulative_score <= TOP_P_THRESHOLD
    THEN <<[id |-> Head(items).id, score |-> Head(items).score]>> \o BudgetWalk_before(Tail(items), cumulative_score + Head(items).score)
    ELSE <<>>
RECURSIVE BudgetWalk_continue(_, _)
BudgetWalk_continue(items, cumulative_score) ==
  IF items = <<>> THEN <<>>
  ELSE IF cumulative_score + Head(items).score <= TOP_P_THRESHOLD
    THEN <<[id |-> Head(items).id, score |-> Head(items).score]>> \o BudgetWalk_continue(Tail(items), cumulative_score + Head(items).score)
    ELSE BudgetWalk_continue(Tail(items), cumulative_score)
RECURSIVE BudgetWalk_first(_, _)
BudgetWalk_first(items, cumulative_score) ==
  IF items = <<>> THEN <<>>
  ELSE IF cumulative_score = 0 \/ cumulative_score + Head(items).score <= TOP_P_THRESHOLD
    THEN <<[id |-> Head(items).id, score |-> Head(items).score]>> \o BudgetWalk_first(Tail(items), cumulative_score + Head(items).score)
    ELSE <<>>
RECURSIVE BudgetWalk(_, _)
BudgetWalk(items, cumulative_score) ==
  IF items = <<>> THEN <<>>
  ELSE IF cumulative_score + Head(items).score <= TOP_P_THRESHOLD
    THEN <<[id |-> Head(items).id, score |-> Head(items).score]>> \o BudgetWalk(Tail(items), cumulative_score + Head(items).score)
    ELSE <<>>

\* what the try block of search does with the response text: the value it
\* returns, or the exception it leaves with
OnDecodeError_raise == [out |-> "raised", res |-> <<>>]
\* except json.JSONDecodeError: return []
OnDecodeError == [out |-> "returned", res |-> <<>>]

HandleResponse(text) ==
  LET parsed == ParseResponse(text) IN
  IF ~parsed.ok THEN OnDecodeError
  ELSE IF parsed.kind # "list" THEN [out |-> "returned", res |-> <<>>]
  ELSE IF \E i \in 1 .. Len(parsed.items) : parsed.items[i].kind # "dict"
    \* result.get on a value that is not a dict: AttributeError
    THEN [out |-> "raised", res |-> <<>>]
  ELSE [out |-> "returned", res |-> BudgetWalk(SortedByScore(Threshold(parsed.items)), 0)]

\* ------------------------------------------------------------------------
\* GeminiSearcher._get_document_metadata
\* ------------------------------------------------------------------------
\* A listed file is known by its number, which stands for its id, its name
\* and its link alike.  The lookup takes the first file of the listing,
\* whatever filename it was called with.
get_document_metadata(filename, files) ==
  IF Len(files) > 0
    THEN [filename |-> filename, actual_filename |-> files[1], download_link |-> files[1]]
    ELSE [filename |-> filename]

\* ------------------------------------------------------------------------
\* the texts the provider may answer with
\* ------------------------------------------------------------------------
CandLists == UNION {[1 .. n -> Scores] : n \in 0 .. MaxCands}
ObjToks(cs) == [i \in 1 .. Len(cs) |-> Obj(i, cs[i])]
RECURSIVE Sep(_, _)
Sep(toks, sep) ==
  IF Len(toks) <= 1 THEN toks
  ELSE <<Head(toks)>> \o sep \o Sep(Tail(toks), sep)
Arr(cs) == <<Tok("LB")>> \o Sep(ObjToks(cs), <<Tok("CM")>>) \o <<Tok("RB")>>
ArrLines(cs) == <<Tok("LB"), Tok("NL")>> \o Sep(ObjToks(cs), <<Tok("CM"), Tok("NL")>>) \o <<Tok("NL"), Tok("RB")>>
ResponsesOf(cs) ==
  { Arr(cs),
    <<Tok("FJ"), Tok("NL")>> \o Arr(cs) \o <<Tok("NL"), Tok("F")>>,
    <<Tok("FJ"), Tok("NL")>> \o ArrLines(cs) \o <<Tok("NL"), Tok("F")>>,
    <<Tok("TXT"), Tok("NL")>> \o Arr(cs),
    <<Tok("LB"), Tok("CTL")>> \o Sep(ObjToks(cs), <<Tok("CM")>>) \o <<Tok("RB")>>,
    <<Tok("FJ"), Tok("NL"), Tok("LB")>> \o Sep(Append(ObjToks(cs), Tok("TOBJ")), <<Tok("CM")>>) }
FixedResponses ==
  { <<>>,
    <<Tok("NUM")>>,
    <<Tok("LB"), Tok("NUM"), Tok("RB")>>,
    <<Tok("FJ"), Tok("NL"), Tok("LB"), Tok("TOBJ")>>,
    <<Obj(1, 100)>>,
    <<Tok("TXT"), Tok("LB"), Tok("NUM"), Tok("RB"), Tok("NL")>> \o Arr(<<100>>) }
Responses == FixedResponses \cup UNION {ResponsesOf(cs) : cs \in CandLists}

\* ------------------------------------------------------------------------
\* GeminiSearcher.search
\* ------------------------------------------------------------------------
QueryFile == 0
Range(f) == {f[i] : i \in DOMAIN f}

\* search is called: drive.list_files() is awaited
SearchInvoke ==
  /\ pc = "idle"
  /\ pc' = "s_list"
  /\ api' = "search"
  /\ DriveStart("list_files")
  /\ UNCHANGED <<outcome, folder, svars, hvars, bvars, kvars, cvars, mvars, ivars, gvars>>

\* list_files returned: an empty listing ends the search with [], otherwise
\* the download of the first file is awaited
SearchListed ==
  /\ pc = "s_list"
  /\ dpc = "returned"
  /\ listed' = TRUE
  /\ drive_files' = results
  /\ UNCHANGED <<api, folder, hvars, bvars, kvars, cvars, mvars, ivars, gvars, temp_files, temp_path, upIdx, disk, created, response, pending, drive_failed, provider_fail>>
  /\ IF results = <<>>
       THEN /\ pc' = "done"
            /\ outcome' = "returned"
            /\ sresults' = <<>>
            /\ DriveReset
            /\ UNCHANGED fileIdx
       ELSE /\ pc' = "s_download"
            /\ fileIdx' = 1
            /\ DriveStart("download_file")
            /\ UNCHANGED <<outcome, sresults>>

\* list_files raised, or the task was cancelled inside it: the outer
\* except Exception logs and re-raises; a CancelledError passes it
SearchListFailed ==
  /\ pc = "s_list"
  /\ dpc \in {"raised", "cancelled"}
  /\ pc' = "done"
  /\ outcome' = dpc
  /\ DriveReset
  /\ UNCHANGED <<api, folder, svars, hvars, bvars, kvars, cvars, mvars, ivars, gvars>>

\* after the file at fileIdx: the next download, or the query temp file
AfterFile ==
  IF fileIdx < Len(drive_files)
    THEN /\ pc' = "s_download"
         /\ fileIdx' = fileIdx + 1
         /\ DriveStart("download_file")
    ELSE /\ pc' = "s_query"
         /\ fileIdx' = fileIdx
         /\ DriveReset

\* download_file returned the content: it is written to a new temp file
\* (delete=False) and the file is recorded in temp_files
SearchDownloaded ==
  /\ pc = "s_download"
  /\ dpc = "returned"
  /\ disk' = disk \cup {drive_files[fileIdx]}
  /\ created' = created \cup {drive_files[fileIdx]}
  /\ temp_files' = Append(temp_files, drive_files[fileIdx])
  /\ AfterFile
  /\ UNCHANGED <<api, outcome, folder, hvars, bvars, kvars, cvars, mvars, ivars, gvars, listed, drive_files, temp_path, upIdx, response, pending, sresults, drive_failed, provider_fail>>

\* download_file raised: except Exception logs and continues with the next file
SearchDownloadFailed ==
  /\ pc = "s_download"
  /\ dpc = "raised"
  /\ AfterFile
  /\ UNCHANGED <<api, outcome, folder, hvars, bvars, kvars, cvars, mvars, ivars, gvars, listed, drive_files, temp_files, temp_path, upIdx, disk, created, response, pending, sresults, drive_failed, provider_fail>>

\* the task is cancelled inside download_file: the CancelledError passes the
\* except Exception of the loop and of search, before the try/finally
SearchDownloadCancelled ==
  /\ pc = "s_download"
  /\ dpc = "cancelled"
  /\ pc' = "done"
  /\ outcome' = "cancelled"
  /\ DriveReset
  /\ UNCHANGED <<api, folder, svars, hvars, bvars, kvars, cvars, mvars, ivars, gvars>>

\* inside the try: the query temp file is created and temp_path is bound to it
SearchQueryFile ==
  /\ pc = "s_query"
  /\ pc' = "s_upload_query"
  /\ disk' = disk \cup {QueryFile}
  /\ created' = created \cup {QueryFile}
  /\ temp_path' = QueryFile
  /\ UNCHANGED <<api, outcome, folder, hvars, bvars, kvars, cvars, mvars, ivars, gvars, dvars, listed, drive_files, fileIdx, temp_files, upIdx, response, pending, sresults, drive_failed, provider_fail>>

\* genai.upload_file(temp_path) for the query file succeeds or raises
SearchUploadQuery(ok) ==
  /\ pc = "s_upload_query"
  /\ IF ok
       THEN /\ pc' = IF temp_files = <<>> THEN "s_generate" ELSE "s_upload_docs"
            /\ upIdx' = 1
            /\ UNCHANGED <<pending, provider_fail>>
       ELSE /\ pc' = "s_finally"
            /\ pending' = "raised"
            /\ provider_fail' \in FailKinds
            /\ UNCHANGED upIdx
  /\ UNCHANGED <<api, outcome, folder, hvars, bvars, kvars, cvars, mvars, ivars, gvars, dvars, listed, drive_files, fileIdx, temp_files, temp_path, disk, created, response, sresults, drive_failed>>

\* one iteration of: for temp_path, original_name, mime_type in temp_files.
\* The loop target rebinds temp_path, then genai.upload_file succeeds or raises
SearchUploadDoc(ok) ==
  /\ pc = "s_upload_docs"
  /\ temp_path' = temp_files[upIdx]
  /\ IF ok
       THEN /\ pc' = IF upIdx < Len(temp_files) THEN "s_upload_docs" ELSE "s_generate"
            /\ upIdx' = upIdx + 1
            /\ UNCHANGED <<pending, provider_fail>>
       ELSE /\ pc' = "s_finally"
            /\ pending' = "raised"
            /\ provider_fail' \in FailKinds
            /\ UNCHANGED upIdx
  /\ UNCHANGED <<api, outcome, folder, hvars, bvars, kvars, cvars, mvars, ivars, gvars, dvars, listed, drive_files, fileIdx, temp_files, disk, created, response, sresults, drive_failed>>

\* generate_content answers with a text: the response is repaired, parsed,
\* filtered and the try block ends with a return or an exception
SearchGenerate(text) ==
  /\ pc = "s_generate"
  /\ pc' = "s_finally"
  /\ response' = text
  /\ pending' = HandleResponse(text).out
  /\ sresults' = HandleResponse(text).res
  \* the provider names a document of the folder as the source of each result
  /\ \E src \in [1 .. Len(HandleResponse(text).res) -> 1 .. folder] :
       smeta' = [i \in 1 .. Len(HandleResponse(text).res) |-> get_document_metadata(src[i], drive_files)]
  /\ UNCHANGED <<api, outcome, folder, hvars, bvars, kvars, cvars, ivars, gvars, dvars, listed, drive_files, fileIdx, temp_files, temp_path, upIdx, disk, created, drive_failed, provider_fail>>

\* generate_content raises
SearchGenerateFailed ==
  /\ pc = "s_generate"
  /\ pc' = "s_finally"
  /\ pending' = "raised"
  /\ provider_fail' \in FailKinds
  /\ UNCHANGED <<api, outcome, folder, hvars, bvars, kvars, cvars, mvars, ivars, gvars, dvars, listed, drive_files, fileIdx, temp_files, temp_path, upIdx, disk, created, response, sresults, drive_failed>>

\* the paths the finally block unlinks: the file temp_path is bound to now,
\* then every path of temp_files
CleanupPaths == {temp_path} \cup Range(temp_files)

\* finally: the temp files are unlinked and search returns or re-raises
SearchFinally ==
  /\ pc = "s_finally"
  /\ pc' = "done"
  /\ disk' = disk \ CleanupPaths
  /\ outcome' = pending
  /\ UNCHANGED <<api, folder, hvars, bvars, kvars, cvars, mvars, ivars, gvars, dvars, listed, drive_files, fileIdx, temp_files, temp_path, upIdx, created, response, pending, sresults, drive_failed, provider_fail>>

\* ------------------------------------------------------------------------
\* HybridSearcher.search over the corpus cached by the IndexStore
\* ------------------------------------------------------------------------
\* Raw scores are in hundredths, fused scores in ten-thousandths.  Chunk
\* indices are 0 .. chunks-1 as in the code; -1 is the label FAISS returns
\* for a missing neighbour, PadScore the distance that comes with it.
PadScore == -1000
SemScores == {-50, 50, 100}
KwScores == {0, 40, 80}
Alphas == {30, 70}

\* index.search(query_embedding, k): the k best inner products, best first,
\* padded with label -1 when the index holds fewer than k vectors
FaissSearch(n, k, sem) ==
  LET ranked == SortDesc_from([i \in 1 .. n |-> [index |-> i - 1, score |-> sem[i]]], <<>>)
  IN [j \in 1 .. k |-> IF j <= n THEN ranked[j] ELSE [index |-> -1, score |-> PadScore]]

\* chunks[idx] with Python indexing: -1 is the last chunk, and any index
\* outside the list is an IndexError
ChunkLookupFails(n, idx) == idx >= n \/ idx < 0 - n
ChunkOf(n, idx) == IF idx < 0 THEN n + idx ELSE idx

\* np.argsort(similarities)[-k:][::-1]; similarities has one entry per row
\* of the TF-IDF matrix
TopK(n, k, kw) ==
  LET asc == SortAsc_from([i \in 1 .. n |-> [index |-> i - 1, score |-> kw[i]]], <<>>)
      last == SubSeq(asc, IF n > k THEN n - k + 1 ELSE 1, n)
  IN Reverse(last)

PosOf(all, idx) == IF \E j \in 1 .. Len(all) : all[j].index = idx THEN CHOOSE j \in 1 .. Len(all) : all[j].index = idx ELSE 0

\* all_results[res["index"]] = {...} for each semantic result, in order
RECURSIVE AddSemantic(_, _, _, _)
AddSemantic(all, rs, n, alpha) ==
  IF rs = <<>> THEN all
  ELSE LET r == Head(rs)
           e == [index |-> r.index, chunk |-> ChunkOf(n, r.index), score |-> alpha * r.score, found_by |-> <<"semantic">>]
           p == PosOf(all, r.index)
       IN AddSemantic(IF p = 0 THEN Append(all, e) ELSE [all EXCEPT ![p] = e], Tail(rs), n, alpha)

\* an entry the semantic pass stored, met again by the keyword pass with the
\* weighted keyword score w
KeywordUpdate_overwrite(e, w) == [e EXCEPT !.score = w, !.found_by = Append(@, "keyword")]
KeywordUpdate(e, w) == [e EXCEPT !.score = @ + w, !.found_by = Append(@, "keyword")]

\* the keyword pass: add to an entry already present, or insert a new one
RECURSIVE AddKeyword(_, _, _, _)
AddKeyword(all, rs, n, alpha) ==
  IF rs = <<>> THEN all
  ELSE LET r == Head(rs)
           p == PosOf(all, r.index)
           e == [index |-> r.index, chunk |-> ChunkOf(n, r.index), score |-> (100 - alpha) * r.score, found_by |-> <<"keyword">>]
       IN AddKeyword(IF p = 0 THEN Append(all, e)
                     ELSE [all EXCEPT ![p] = KeywordUpdate(@, (100 - alpha) * r.score)],
                     Tail(rs), n, alpha)

\* sorted(all_results.values(), key=score, reverse=True)[:k]
FirstK_all(s, k) == s
FirstK(s, k) == SubSeq(s, 1, IF Len(s) < k THEN Len(s) ELSE k)
Fuse(n, k, sem, kw, alpha) ==
  FirstK(SortDesc_from(AddKeyword(AddSemantic(<<>>, FaissSearch(n, k, sem), n, alpha), TopK(Len(kw), k, kw), n, alpha), <<>>), k)

\* _semantic_search raises when a returned label has no chunk
SemanticRaises(n, k, sem) == \E j \in 1 .. k : ChunkLookupFails(n, FaissSearch(n, k, sem)[j].index)
\* TfidfVectorizer().fit_transform(texts) raises ValueError on an empty corpus
FitRaises(n) == n = 0

\* IndexStore.save(index, metadata) has cached a corpus of n chunks
HybridLoad(n) ==
  /\ pc = "idle"
  /\ pc' = "h_ready"
  /\ api' = "hybrid"
  /\ chunks' = n
  /\ UNCHANGED <<outcome, folder, dvars, svars, gvars, bvars, kvars, cvars, mvars, ivars, tfidf, tfidf_rows, hk, hsem, hkw, halpha, hresults>>

\* _initialize_tfidf builds the vectorizer and the matrix only when
\* self._tfidf is None; otherwise the keyword search reads the matrix it has
KeywordRows == IF tfidf = "fitted" THEN tfidf_rows ELSE chunks
\* _keyword_search raises when a row of the matrix has no chunk in the
\* corpus the store holds now
KeywordRaises(n, k, kw) == \E j \in 1 .. Len(TopK(Len(kw), k, kw)) : ChunkLookupFails(n, TopK(Len(kw), k, kw)[j].index)

\* HybridSearcher.search(query, k)
HybridSearch(k, alpha) ==
  \E sem \in [1 .. chunks -> SemScores], kw \in [1 .. KeywordRows -> KwScores] :
    /\ pc = "h_ready"
    /\ pc' = "done"
    /\ hk' = k
    /\ hsem' = sem
    /\ hkw' = kw
    /\ halpha' = alpha
    /\ UNCHANGED <<api, folder, dvars, svars, gvars, bvars, kvars, cvars, mvars, ivars, chunks>>
    /\ IF SemanticRaises(chunks, k, sem)
         THEN \* the keyword search is not reached
              /\ outcome' = "raised"
              /\ UNCHANGED <<tfidf, tfidf_rows, hresults>>
         ELSE IF tfidf = "none" /\ FitRaises(chunks)
         THEN \* self._tfidf was assigned before fit_transform raised
              /\ outcome' = "raised"
              /\ tfidf' = "unfitted"
              /\ UNCHANGED <<tfidf_rows, hresults>>
         ELSE IF tfidf = "unfitted"
         THEN \* self._tfidf.transform raises NotFittedError
              /\ outcome' = "raised"
              /\ UNCHANGED <<tfidf, tfidf_rows, hresults>>
         ELSE IF KeywordRaises(chunks, k, kw)
         THEN /\ outcome' = "raised"
              /\ tfidf' = "fitted"
              /\ tfidf_rows' = KeywordRows
              /\ UNCHANGED hresults
         ELSE /\ outcome' = "returned"
              /\ tfidf' = "fitted"
              /\ tfidf_rows' = KeywordRows
              /\ hresults' = Fuse(chunks, k, sem, kw, alpha)

\* IndexStore.save(index, metadata) on the searcher's store after a search:
\* the store now holds a corpus of n chunks; nothing touches self._tfidf
HybridCorpusUpdate(n) ==
  /\ api = "hybrid"
  /\ pc = "done"
  /\ pc' = "h_ready"
  /\ chunks' = n
  /\ outcome' = "none"
  /\ hk' = 0
  /\ hsem' = <<>>
  /\ hkw' = <<>>
  /\ halpha' = 0
  /\ hresults' = <<>>
  /\ UNCHANGED <<api, folder, dvars, svars, gvars, bvars, kvars, cvars, mvars, ivars, tfidf, tfidf_rows>>

\* ------------------------------------------------------------------------
\* group_results_by_source over a list of search results
\* ------------------------------------------------------------------------
\* A result is the dict search builds: text, score and a metadata dict that
\* carries relevance_explanation and, unless the lookup left it out, filename.
\* Texts are numbered by position; scores are in hundredths.
MaxResults == 3
Filenames == {"a.pdf", "A.pdf", "Unknown"}
GroupScores == {90, 100}
Metadatas(i) == {[relevance_explanation |-> i]} \cup {[filename |-> f, relevance_explanation |-> i] : f \in Filenames}
ResultsAt(i) == {[text |-> i, score |-> sc, metadata |-> md] : sc \in GroupScores, md \in Metadatas(i)}
\* search returns its list in descending score order
IsDescending(rs) == \A i \in 1 .. Len(rs) - 1 : rs[i].score >= rs[i + 1].score
ResultLists ==
  UNION {{rs \in [1 .. n -> UNION {ResultsAt(i) : i \in 1 .. n}] :
            (\A i \in 1 .. n : rs[i].text = i) /\ IsDescending(rs)} : n \in 0 .. MaxResults}

\* d.get(key, default)
Get(d, key, default) == IF key \in DOMAIN d THEN d[key] ELSE default
\* position of the entry of source in the grouped dict, 0 when absent
GroupPos(g, source) == IF \E j \in 1 .. Len(g) : g[j].source = source THEN CHOOSE j \in 1 .. Len(g) : g[j].source = source ELSE 0

\* the first loop: one dict entry per source in insertion order, the texts,
\* scores and explanations appended; a result without a 'metadata', 'text'
\* or 'score' key raises KeyError
RECURSIVE GroupLoop(_, _)
GroupLoop(g, rs) ==
  IF rs = <<>> THEN [raised |-> FALSE, grouped |-> g]
  ELSE LET result == Head(rs)
       IN IF "metadata" \notin DOMAIN result THEN [raised |-> TRUE, grouped |-> g]
          ELSE LET source == Get(result.metadata, "filename", "Unknown")
                   entry == [source |-> source, passages |-> <<>>, scores |-> <<>>, explanations |-> <<>>, metadata |-> result.metadata]
                   g1 == IF GroupPos(g, source) = 0 THEN Append(g, entry) ELSE g
                   p == GroupPos(g1, source)
               IN IF "text" \notin DOMAIN result \/ "score" \notin DOMAIN result THEN [raised |-> TRUE, grouped |-> g1]
                  ELSE GroupLoop([g1 EXCEPT ![p] = [@ EXCEPT !.passages = Append(@, result.text),
                                                              !.scores = Append(@, result.score),
                                                              !.explanations = Append(@, Get(result.metadata, "relevance_explanation", ""))]],
                                 Tail(rs))

\* max(source_data['scores'])
RECURSIVE SumSeq(_)
SumSeq(xs) == IF xs = <<>> THEN 0 ELSE Head(xs) + SumSeq(Tail(xs))
MaxScore_sum(scores) == SumSeq(scores)
MaxScore(scores) == CHOOSE m \in Range(scores) : \A x \in Range(scores) : x <= m
\* the second loop: one formatted group per dict entry, in dict order; the
\* explanation field stands for the explanations joined with the separator
FormatGroups_reversed(g) == [j \in 1 .. Len(g) |-> [source |-> g[Len(g) + 1 - j].source, passages |-> g[Len(g) + 1 - j].passages, score |-> MaxScore(g[Len(g) + 1 - j].scores), explanation |-> g[Len(g) + 1 - j].explanations, metadata |-> g[Len(g) + 1 - j].metadata]]
FormatGroups(g) == [j \in 1 .. Len(g) |-> [source |-> g[j].source, passages |-> g[j].passages, score |-> MaxScore(g[j].scores), explanation |-> g[j].explanations, metadata |-> g[j].metadata]]
group_results_by_source(rs) ==
  LET loop == GroupLoop(<<>>, rs)
  IN IF loop.raised THEN [raised |-> TRUE, groups |-> <<>>]
     ELSE [raised |-> FALSE, groups |-> FormatGroups(loop.grouped)]

\* group_results_by_source(results) on a list of search results
GroupResults(rs) ==
  /\ pc = "idle"
  /\ pc' = "g_grouped"
  /\ api' = "group"
  /\ gresults' = rs
  /\ grouped' = group_results_by_source(rs).groups
  /\ outcome' = IF group_results_by_source(rs).raised THEN "raised" ELSE "returned"
  /\ UNCHANGED <<folder, dvars, svars, hvars, bvars, kvars, cvars, mvars, ivars, regrouped>>

\* group_results_by_source applied to the list it returned
Regroup ==
  /\ pc = "g_grouped"
  /\ outcome = "returned"
  /\ pc' = "done"
  /\ regrouped' = group_results_by_source(grouped).groups
  /\ outcome' = IF group_results_by_source(grouped).raised THEN "raised" ELSE "returned"
  /\ UNCHANGED <<api, folder, dvars, svars, hvars, bvars, kvars, cvars, mvars, ivars, gresults, grouped>>

\* ------------------------------------------------------------------------
\* DocumentProcessor and IndexBuilder: one corpus build
\* ------------------------------------------------------------------------
\* A document is given by the number m of chunks the text splitter cuts it
\* into; a chunk record is its id (the i of "chunk_i") and its document.
MaxBuildDocs == 3

\* create_chunks: the ids are chunk_0 .. chunk_(m-1) for every document
create_chunks(m, doc) == [i \in 1 .. m |-> [id |-> i - 1, doc |-> doc]]

\* self.gcs.upload_file(...) and self.gcs.upload_json(...) in save: the
\* GCSHandler methods are coroutine functions and save does not await them,
\* so the call makes a coroutine object that is dropped and the blob keeps
\* the content it had
UploadBlob(old, new) == old

\* IndexStore.exists(): file_exists is a coroutine function called without
\* await, so the value tested by update_index is a coroutine object, truthy
\* whatever the bucket holds
StoreExists == TRUE
\* index.add(new_embeddings_array) on the cached index object
IndexAdd_none(ntotal, m) == ntotal
IndexAdd(ntotal, m) == ntotal + m
\* embeddings[0] of create_index and index.add of update_index fail on a
\* document without chunks
NoChunksRaises(m) == m = 0

\* IndexBuilder.create_index(chunks) for the chunks of one document: save()
\* puts the index and the metadata in the IndexStore's cache
CreateIndex(m) ==
  /\ pc \in {"idle", "b_run"}
  /\ api \in {"none", "build"}
  /\ ndocs < MaxBuildDocs
  /\ api' = "build"
  /\ ndocs' = ndocs + 1
  /\ UNCHANGED <<folder, dvars, svars, hvars, gvars, kvars, cvars, mvars>>
  /\ IF NoChunksRaises(m)
       THEN /\ pc' = "done"
            /\ outcome' = "raised"
            /\ UNCHANGED <<index_cached, meta_chunks, ivars>>
       ELSE /\ pc' = "b_run"
            /\ blob_index' = UploadBlob(blob_index, m)
            /\ blob_meta' = UploadBlob(blob_meta, m)
            /\ index_cached' = TRUE
            /\ index_ntotal' = m
            /\ meta_chunks' = create_chunks(m, ndocs + 1)
            /\ UNCHANGED outcome

\* process_and_index_document(content, metadata): create_chunks, then
\* update_index, which appends to the cached index and metadata; with an
\* empty cache the index property cannot load an index and raises
ProcessAndIndex(m) ==
  /\ pc \in {"idle", "b_run"}
  /\ api \in {"none", "build"}
  /\ ndocs < MaxBuildDocs
  /\ api' = "build"
  /\ ndocs' = ndocs + 1
  /\ UNCHANGED <<folder, dvars, svars, hvars, gvars, kvars, cvars, mvars>>
  /\ IF StoreExists
       THEN IF ~index_cached \/ NoChunksRaises(m)
              THEN /\ pc' = "done"
                   /\ outcome' = "raised"
                   /\ UNCHANGED <<index_cached, meta_chunks, ivars>>
              ELSE /\ pc' = "b_run"
                   /\ index_ntotal' = IndexAdd(index_ntotal, m)
                   /\ meta_chunks' = meta_chunks \o create_chunks(m, ndocs + 1)
                   /\ blob_index' = UploadBlob(blob_index, IndexAdd(index_ntotal, m))
                   /\ blob_meta' = UploadBlob(blob_meta, Len(meta_chunks) + m)
                   /\ UNCHANGED <<index_cached, outcome>>
       ELSE \* self.create_index(new_chunks)
            IF NoChunksRaises(m)
              THEN /\ pc' = "done"
                   /\ outcome' = "raised"
                   /\ UNCHANGED <<index_cached, meta_chunks, ivars>>
              ELSE /\ pc' = "b_run"
                   /\ blob_index' = UploadBlob(blob_index, m)
                   /\ blob_meta' = UploadBlob(blob_meta, m)
                   /\ index_cached' = TRUE
                   /\ index_ntotal' = m
                   /\ meta_chunks' = create_chunks(m, ndocs + 1)
                   /\ UNCHANGED outcome

\* the build has no more documents
BuildComplete ==
  /\ pc = "b_run"
  /\ pc' = "done"
  /\ outcome' = "returned"
  /\ UNCHANGED <<api, folder, dvars, svars, hvars, gvars, bvars, kvars, cvars, mvars, ivars>>

\* ------------------------------------------------------------------------
\* The Slack routes and SlackHandler._async_search_and_respond
\* ------------------------------------------------------------------------
\* max_retries of _async_search_and_respond
slack_max_retries == 3

EventTypes == {"url_verification", "app_mention", "other"}
Commands == {"/find", "other"}
\* how a chat_postMessage call ends: it returns, or raises a connection
\* error, a SlackApiError or another exception
\* the request headers as verify_slack_request classifies them
Requests == [timestamp : {"fresh", "old", "malformed"}, signature : {"valid", "invalid"}]
PostResults == {"ok", "transient", "slackapi", "other"}
\* how searcher.search ends for the handler
SearchResults == {"ok", "transient", "other"}

\* except (BrokenPipeError, ConnectionError, SlackApiError)
SlackCaught(kind) == kind \in {"transient", "slackapi"}
\* if retry_count == max_retries: post the error message and return
SlackExhausted_late(rc) == rc = slack_max_retries + 1
SlackExhausted(rc) == rc = slack_max_retries

\* POST /slack/events: the body is parsed and a url_verification challenge
\* is answered at once, before any verification
SlackEventsReceive(type, req) ==
  /\ pc = "idle"
  /\ request' = req
  /\ api' = "slack"
  /\ route' = "events"
  /\ body_type' = type
  /\ IF type = "url_verification"
       THEN pc' = "done" /\ http' = "challenge"
       ELSE pc' = "k_verify" /\ UNCHANGED http
  /\ UNCHANGED <<outcome, folder, dvars, svars, hvars, gvars, bvars, cvars, mvars, ivars, verified, task, k_retry, k_attempts, k_waits, k_last, channel>>

\* POST /slack/commands: handle_slack_commands starts with the verification
SlackCommandsReceive(cmd, req) ==
  /\ pc = "idle"
  /\ request' = req
  /\ api' = "slack"
  /\ route' = "commands"
  /\ body_type' = cmd
  /\ pc' = "k_verify"
  /\ UNCHANGED <<outcome, folder, dvars, svars, hvars, gvars, bvars, cvars, mvars, ivars, verified, http, task, k_retry, k_attempts, k_waits, k_last, channel>>

\* verify_slack_request returns True when the timestamp is at most five
\* minutes away and the HMAC of "v0:timestamp:body" equals the signature
\* header; otherwise it raises (float() of a malformed timestamp, or an
\* HTTPException 403)
VerifyPasses_unsigned(req) == req.timestamp = "fresh"
VerifyPasses(req) == req.timestamp = "fresh" /\ req.signature = "valid"

\* await verify_slack_request(request).  The events route turns its
\* exception into HTTP 500, the commands handler into an error text.
SlackVerify ==
  /\ pc = "k_verify"
  /\ IF VerifyPasses(request)
       THEN /\ verified' = TRUE
            /\ pc' = "k_dispatch"
            /\ UNCHANGED http
       ELSE /\ pc' = "done"
            /\ http' = IF route = "events" THEN "error500" ELSE "error_text"
            /\ UNCHANGED verified
  /\ UNCHANGED <<api, outcome, folder, dvars, svars, hvars, gvars, bvars, cvars, mvars, ivars, request, route, body_type, task, k_retry, k_attempts, k_waits, k_last, channel>>

\* after the verification: handle_mention for an app_mention, the /find
\* branch for a command; a usable query starts the search task with
\* asyncio.create_task and the route answers at once
SlackDispatch(has_query) ==
  /\ pc = "k_dispatch"
  /\ UNCHANGED <<api, outcome, folder, dvars, svars, hvars, gvars, bvars, cvars, mvars, ivars, request, route, body_type, verified, k_retry, k_waits, k_last>>
  /\ IF body_type \in {"app_mention", "/find"} /\ has_query
       THEN /\ task' = "running"
            /\ k_attempts' = 1
            /\ pc' = "k_try"
            /\ http' = IF route = "events" THEN "ok" ELSE "searching"
            /\ UNCHANGED channel
       ELSE /\ pc' = "done"
            /\ http' = IF route = "events" THEN "ok"
                       ELSE IF body_type = "/find" THEN "usage" ELSE "unknown"
            /\ channel' = IF body_type = "app_mention" THEN Append(channel, "prompt") ELSE channel
            /\ UNCHANGED <<task, k_attempts>>

\* the inner except clause for an exception of the given kind, or the outer
\* except Exception when the inner clause does not catch it
SlackHandle(kind) ==
  /\ k_last' = kind
  /\ IF SlackCaught(kind)
       THEN /\ k_retry' = k_retry + 1
            /\ IF SlackExhausted(k_retry + 1)
                 THEN pc' = "k_errpost" /\ UNCHANGED k_waits
                 ELSE pc' = "k_backoff" /\ k_waits' = k_waits + 1
       ELSE /\ pc' = "k_unexpected"
            /\ UNCHANGED <<k_retry, k_waits>>

\* an attempt starts: the "processing your request" message is posted
TaskProcessing(res) ==
  /\ pc = "k_try"
  /\ IF res = "ok"
       THEN /\ channel' = Append(channel, "processing")
            /\ pc' = "k_search"
            /\ UNCHANGED <<k_retry, k_waits, k_last>>
       ELSE SlackHandle(res) /\ UNCHANGED channel
  /\ UNCHANGED <<api, outcome, folder, dvars, svars, hvars, gvars, bvars, cvars, mvars, ivars, request, route, body_type, verified, http, task, k_attempts>>

\* results = await searcher.search(text), then format_search_results
TaskSearch(res) ==
  /\ pc = "k_search"
  /\ IF res = "ok"
       THEN pc' = "k_post" /\ UNCHANGED <<k_retry, k_waits, k_last>>
       ELSE SlackHandle(res)
  /\ UNCHANGED <<api, outcome, folder, dvars, svars, hvars, gvars, bvars, cvars, mvars, ivars, request, route, body_type, verified, http, task, k_attempts, channel>>

\* client.chat_postMessage(channel=channel_id, **response), then break
TaskPost(res) ==
  /\ pc = "k_post"
  /\ IF res = "ok"
       THEN /\ channel' = Append(channel, "results")
            /\ task' = "ended"
            /\ pc' = "done"
            /\ UNCHANGED <<k_retry, k_waits, k_last>>
       ELSE SlackHandle(res) /\ UNCHANGED <<channel, task>>
  /\ UNCHANGED <<api, outcome, folder, dvars, svars, hvars, gvars, bvars, cvars, mvars, ivars, request, route, body_type, verified, http, k_attempts>>

\* asyncio.sleep(wait_time) elapses: the loop guard holds and the next
\* attempt starts
TaskWake ==
  /\ pc = "k_backoff"
  /\ pc' = IF k_retry < slack_max_retries THEN "k_try" ELSE "done"
  /\ k_attempts' = IF k_retry < slack_max_retries THEN k_attempts + 1 ELSE k_attempts
  /\ task' = IF k_retry < slack_max_retries THEN task ELSE "ended"
  /\ UNCHANGED <<api, outcome, folder, dvars, svars, hvars, gvars, bvars, cvars, mvars, ivars, request, route, body_type, verified, http, k_retry, k_waits, k_last, channel>>

\* the task is cancelled while it sleeps: CancelledError passes both excepts
TaskCancel ==
  /\ pc = "k_backoff"
  /\ pc' = "done"
  /\ task' = "cancelled"
  /\ UNCHANGED <<api, outcome, folder, dvars, svars, hvars, gvars, bvars, cvars, mvars, ivars, request, route, body_type, verified, http, k_retry, k_attempts, k_waits, k_last, channel>>

\* retries exhausted: the "temporary connection issue" message is posted and
\* the task returns; an exception of that post reaches the outer except
TaskErrPost(res) ==
  /\ pc = "k_errpost"
  /\ IF res = "ok"
       THEN /\ channel' = Append(channel, "connection_issue")
            /\ task' = "ended"
            /\ pc' = "done"
       ELSE /\ pc' = "k_unexpected"
            /\ UNCHANGED <<channel, task>>
  /\ UNCHANGED <<api, outcome, folder, dvars, svars, hvars, gvars, bvars, cvars, mvars, ivars, request, route, body_type, verified, http, k_retry, k_attempts, k_waits, k_last>>

\* the outer except Exception posts the "unexpected error" message; an
\* exception of that post leaves the task
TaskUnexpected(res) ==
  /\ pc = "k_unexpected"
  /\ pc' = "done"
  /\ IF res = "ok"
       THEN /\ channel' = Append(channel, "unexpected")
            /\ task' = "ended"
       ELSE /\ task' = "crashed"
            /\ UNCHANGED channel
  /\ UNCHANGED <<api, outcome, folder, dvars, svars, hvars, gvars, bvars, cvars, mvars, ivars, request, route, body_type, verified, http, k_retry, k_attempts, k_waits, k_last>>

\* ------------------------------------------------------------------------
\* Two requests on the one event loop: where a remote call runs
\* ------------------------------------------------------------------------
\* the remote services a request calls from a coroutine
RemoteCalls == {"gcs", "drive", "genai"}
\* GCSHandler hands its blob call to the thread pool with
\* loop.run_in_executor and awaits it; GoogleDriveHandler calls
\* .execute() / next_chunk() and GeminiSearcher calls genai.upload_file /
\* generate_content directly in the body of the async def
RunsInExecutor(call) == call = "gcs"
\* steps of the other request's task that are observed
MaxOtherSteps == 2

\* the task of the first request enters a remote call
RemoteEnter(call) ==
  /\ pc = "idle"
  /\ pc' = "c_call"
  /\ api' = "concurrent"
  /\ remote' = call
  /\ loop_thread' = IF RunsInExecutor(call) THEN "free" ELSE "in_call"
  /\ UNCHANGED <<outcome, folder, dvars, svars, hvars, gvars, bvars, kvars, mvars, ivars, other_steps>>

\* the event loop runs a step of the other request's task: it can only when
\* its thread is not inside a call
OtherTaskStep ==
  /\ pc = "c_call"
  /\ loop_thread = "free"
  /\ other_steps < MaxOtherSteps
  /\ other_steps' = other_steps + 1
  /\ UNCHANGED <<pc, api, outcome, folder, dvars, svars, hvars, gvars, bvars, kvars, mvars, ivars, remote, loop_thread>>

\* the remote call returns (or raises) and the first task goes on
RemoteReturn(ok) ==
  /\ pc = "c_call"
  /\ pc' = "done"
  /\ loop_thread' = "free"
  /\ outcome' = IF ok THEN "returned" ELSE "raised"
  /\ UNCHANGED <<api, folder, dvars, svars, hvars, gvars, bvars, kvars, mvars, ivars, remote, other_steps>>

Init ==
  /\ pc = "idle"
  /\ api = "none"
  /\ outcome = "none"
  /\ folder \in 0 .. MaxDocs
  /\ dop = "none"
  /\ dpc = "idle"
  /\ retry_count = 0
  /\ attempts = 0
  /\ waits = 0
  /\ tfails = 0
  /\ hfails = 0
  /\ lastFail = "none"
  /\ dret = "none"
  /\ results = <<>>
  /\ page_token = 0
  /\ filesCreated = 0
  /\ listed = FALSE
  /\ drive_files = <<>>
  /\ fileIdx = 0
  /\ temp_files = <<>>
  /\ temp_path = -1
  /\ upIdx = 0
  /\ disk = {}
  /\ created = {}
  /\ response = NoResponse
  /\ pending = "none"
  /\ sresults = <<>>
  /\ drive_failed = FALSE
  /\ provider_fail = "none"
  /\ chunks = 0
  /\ tfidf = "none"
  /\ tfidf_rows = -1
  /\ hk = 0
  /\ hsem = <<>>
  /\ hkw = <<>>
  /\ halpha = 0
  /\ hresults = <<>>
  /\ gresults = <<>>
  /\ grouped = <<>>
  /\ regrouped = <<>>
  /\ index_cached = FALSE
  /\ meta_chunks = <<>>
  /\ ndocs = 0
  /\ request = [timestamp |-> "none", signature |-> "none"]
  /\ route = "none"
  /\ body_type = "none"
  /\ verified = FALSE
  /\ http = "none"
  /\ task = "none"
  /\ k_retry = 0
  /\ k_attempts = 0
  /\ k_waits = 0
  /\ k_last = "none"
  /\ channel = <<>>
  /\ remote = "none"
  /\ loop_thread = "free"
  /\ other_steps = 0
  /\ smeta = <<>>
  /\ index_ntotal = 0
  /\ blob_index = -1
  /\ blob_meta = -1

Next ==
  \/ \E op \in DriveOps : InvokeDrive(op)
  \/ DriveCallOk
  \/ DrivePermOk
  \/ \E kind \in FailKinds : DriveCallFail(kind)
  \/ DriveWake
  \/ DriveCancel
  \/ DriveDone
  \/ SearchInvoke
  \/ SearchListed
  \/ SearchListFailed
  \/ SearchDownloaded
  \/ SearchDownloadFailed
  \/ SearchDownloadCancelled
  \/ SearchQueryFile
  \/ \E ok \in BOOLEAN : SearchUploadQuery(ok)
  \/ \E ok \in BOOLEAN : SearchUploadDoc(ok)
  \/ \E text \in Responses : SearchGenerate(text)
  \/ SearchGenerateFailed
  \/ SearchFinally
  \/ \E n \in 0 .. MaxChunks : HybridLoad(n)
  \/ \E k \in 1 .. MaxK, alpha \in Alphas : HybridSearch(k, alpha)
  \/ \E n \in 0 .. MaxChunks : HybridCorpusUpdate(n)
  \/ \E rs \in ResultLists : GroupResults(rs)
  \/ Regroup
  \/ \E m \in 0 .. MaxChunks : CreateIndex(m)
  \/ \E m \in 0 .. MaxChunks : ProcessAndIndex(m)
  \/ BuildComplete
  \/ \E type \in EventTypes, req \in Requests : SlackEventsReceive(type, req)
  \/ \E cmd \in Commands, req \in Requests : SlackCommandsReceive(cmd, req)
  \/ SlackVerify
  \/ \E has_query \in BOOLEAN : SlackDispatch(has_query)
  \/ \E res \in PostResults : TaskProcessing(res)
  \/ \E res \in SearchResults : TaskSearch(res)
  \/ \E res \in PostResults : TaskPost(res)
  \/ TaskWake
  \/ TaskCancel
  \/ \E res \in PostResults : TaskErrPost(res)
  \/ \E res \in PostResults : TaskUnexpected(res)
  \/ \E call \in RemoteCalls : RemoteEnter(call)
  \/ OtherTaskStep
  \/ \E ok \in BOOLEAN : RemoteReturn(ok)

Spec == Init /\ [][Next]_vars

\* ------------------------------------------------------------------------
\* Properties
\* ------------------------------------------------------------------------
RECURSIVE SumScores(_)
SumScores(rs) == IF rs = <<>> THEN 0 ELSE Head(rs).score + SumScores(Tail(rs))

SearchEnded == api = "search" /\ pc = "done"
\* generate_content answered and search has ended
Answered == SearchEnded /\ response # NoResponse
\* the response parsed into a JSON array of objects
Candidates == ParseResponse(response).items
ParsedArray == ParseResponse(response).ok /\ ParseResponse(response).kind = "list"
ParsedCandidates == ParsedArray /\ \A i \in 1 .. Len(Candidates) : Candidates[i].kind = "dict"
\* the threshold survivors in descending score order, ties in response order
IsSurvivorOrder(S) ==
  /\ \A i \in 1 .. Len(S) : S[i].score >= T_MIN
  /\ \A i, j \in 1 .. Len(S) : i < j => (S[i].score > S[j].score \/ (S[i].score = S[j].score /\ S[i].id < S[j].id))
  /\ {S[i].id : i \in 1 .. Len(S)} = {Candidates[i].id : i \in {m \in 1 .. Len(Candidates) : Candidates[m].score >= T_MIN}}
  /\ \A i \in 1 .. Len(S) : \E m \in 1 .. Len(Candidates) : Candidates[m].id = S[i].id /\ Candidates[m].score = S[i].score
Survivors == SortedByScore(Threshold(Candidates))
Kept(S, n) == [i \in 1 .. n |-> [id |-> S[i].id, score |-> S[i].score]]

\* C1: when search has returned or raised, every temporary file the request
\* created (one per downloaded document plus the query file) is gone from disk.
C1_TempFilesDeleted == SearchEnded => created \cap disk = {}

\* C2: a retrying operation that met only transient failures returns after
\* exactly (failures + 1) attempts, and raises only after exactly max_retries
\* attempts, all of them failed.
C2_RetryAttempts ==
  (dop \in DriveOps \ {"delete_file"} /\ hfails = 0) =>
    /\ dpc = "returned" => (attempts = tfails + 1 /\ tfails < max_retries)
    /\ dpc = "raised" => (attempts = max_retries /\ tfails = max_retries)
C2_Witness ==
  dop = "download_file" /\ dpc = "returned" /\ hfails = 0 /\ tfails = max_retries - 1 /\ attempts = max_retries

\* C3: a failure that is not transient is never followed by a backoff wait or
\* another attempt: the operation has raised it to the caller at once.
C3_NonTransientNotRetried == lastFail \in {"http4xx", "other"} => dpc = "raised"

\* C4: retry exhaustion, and any other remote failure, reaches the caller as a
\* raised exception, never as a normal return value, delete_file included.
C4_ExhaustionRaises ==
  /\ retry_count = max_retries => dpc = "raised"
  /\ dpc = "returned" => dret \in {"value", "True"}

\* C5: when the response text does not parse as a JSON array after the repair
\* stages, search returns an empty list and raises nothing.
C5_UnparseableGivesEmpty == (Answered /\ ~ParsedArray) => (outcome = "returned" /\ sresults = <<>>)
C5_Witness ==
  /\ Answered
  /\ response = <<Tok("FJ"), Tok("NL"), Tok("LB"), Tok("TOBJ")>>
  /\ outcome = "returned"
  /\ sresults = <<>>

\* C6: the kept list is the longest prefix of the threshold survivors, in
\* descending score order, whose running sum stays within TOP_P_THRESHOLD.
C6_LongestPrefix ==
  (Answered /\ ParsedCandidates) =>
    /\ outcome = "returned"
    /\ IsSurvivorOrder(Survivors)
    /\ \E n \in 0 .. Len(Survivors) :
         /\ sresults = Kept(Survivors, n)
         /\ SumScores(Kept(Survivors, n)) <= TOP_P_THRESHOLD
         /\ n < Len(Survivors) => SumScores(Kept(Survivors, n + 1)) > TOP_P_THRESHOLD
C6_Witness ==
  /\ Answered
  /\ response = Arr(<<110, 100, 90>>)
  /\ sresults = <<[id |-> 1, score |-> 110]>>

\* C7 as stated: the kept scores sum to at most the budget, except that a
\* top survivor whose score alone exceeds the budget is still kept, alone.
C7_FirstAlwaysKept ==
  (Answered /\ ParsedCandidates) =>
    IF Survivors # <<>> /\ Survivors[1].score > TOP_P_THRESHOLD
      THEN sresults = Kept(Survivors, 1)
      ELSE SumScores(sresults) <= TOP_P_THRESHOLD
\* C7 amended: the kept scores sum to at most the budget in every case; a top
\* survivor whose score alone exceeds the budget is not kept and the result
\* is empty.
C7_SumWithinBudget ==
  (Answered /\ ParsedCandidates) =>
    /\ SumScores(sresults) <= TOP_P_THRESHOLD
    /\ (Survivors # <<>> /\ Survivors[1].score > TOP_P_THRESHOLD) => sresults = <<>>
C7_Witness ==
  /\ Answered
  /\ response = Arr(<<90, 250>>)
  /\ outcome = "returned"
  /\ sresults = <<>>

\* C8: every returned candidate scores at least T_MIN, candidates below it
\* are not returned, and when all are below it the result is empty, not an error.
C8_ThresholdApplied ==
  (Answered /\ ParsedCandidates) =>
    /\ outcome = "returned"
    /\ \A i \in 1 .. Len(sresults) : sresults[i].score >= T_MIN
    /\ \A m \in 1 .. Len(Candidates) : Candidates[m].score < T_MIN => \A i \in 1 .. Len(sresults) : sresults[i].id # Candidates[m].id
    /\ (\A m \in 1 .. Len(Candidates) : Candidates[m].score < T_MIN) => sresults = <<>>
C8_Witness ==
  /\ Answered
  /\ response = Arr(<<85, 100>>)
  /\ outcome = "returned"
  /\ sresults = <<[id |-> 2, score |-> 100]>>

\* C9: the returned list is in descending score order and candidates with
\* equal scores keep the order they had in the response.
C9_DescendingStable ==
  Answered =>
    \A i, j \in 1 .. Len(sresults) :
      i < j => \/ sresults[i].score > sresults[j].score
               \/ (sresults[i].score = sresults[j].score /\ sresults[i].id < sresults[j].id)
C9_Witness ==
  /\ Answered
  /\ response = Arr(<<90, 100, 100>>)
  /\ sresults = <<[id |-> 2, score |-> 100], [id |-> 3, score |-> 100]>>

\* C10: on an empty corpus search returns an empty list and raises nothing,
\* in GeminiSearcher (empty listing) and in HybridSearcher (no chunks).
C10_EmptyCorpusGivesEmpty ==
  /\ (SearchEnded /\ listed /\ drive_files = <<>>) => (outcome = "returned" /\ sresults = <<>>)
  /\ (api = "hybrid" /\ pc = "done" /\ chunks = 0) => (outcome = "returned" /\ hresults = <<>>)

\* the listed documents whose download raised: the loop went on without them
SkippedDownloads == Len(drive_files) - Len(temp_files)

\* C11: a hard failure of a remote call inside search makes search raise; a
\* search that returns normally has downloaded every document of the listing,
\* none was left out because its download failed.
C11_HardFailureRaises == (SearchEnded /\ outcome = "returned") => SkippedDownloads = 0

\* HybridSearcher.search has returned its list
HybridReturned == api = "hybrid" /\ pc = "done" /\ outcome = "returned"
\* the two ranked lists the call fused
SemanticResults == FaissSearch(chunks, hk, hsem)
KeywordResults == TopK(Len(hkw), hk, hkw)
\* the entries of a ranked list that carry chunk c
HitsOf(rs, c) == {j \in 1 .. Len(rs) : ChunkOf(chunks, rs[j].index) = c}
\* the weighted contributions a method can have made to chunk c: 0 when the
\* method did not return it
SemanticPart(c) ==
  IF HitsOf(SemanticResults, c) = {} THEN {0}
  ELSE {halpha * SemanticResults[j].score : j \in HitsOf(SemanticResults, c)}
KeywordPart(c) ==
  IF HitsOf(KeywordResults, c) = {} THEN {0}
  ELSE {(100 - halpha) * KeywordResults[j].score : j \in HitsOf(KeywordResults, c)}
MethodsOf(c) ==
  (IF HitsOf(SemanticResults, c) = {} THEN {} ELSE {"semantic"}) \cup
  (IF HitsOf(KeywordResults, c) = {} THEN {} ELSE {"keyword"})

\* C12: every returned chunk carries the weighted score of each method that
\* returned it (their sum when both did), found_by names exactly those
\* methods, and no chunk is returned twice.
C12_FusedScores ==
  HybridReturned =>
    /\ \A i, j \in 1 .. Len(hresults) : i # j => hresults[i].chunk # hresults[j].chunk
    /\ \A i \in 1 .. Len(hresults) :
         /\ Range(hresults[i].found_by) = MethodsOf(hresults[i].chunk)
         /\ Len(hresults[i].found_by) = Cardinality(MethodsOf(hresults[i].chunk))
         /\ \E s \in SemanticPart(hresults[i].chunk), w \in KeywordPart(hresults[i].chunk) :
              hresults[i].score = s + w

\* the returned entries both methods found
FoundByBoth == {i \in 1 .. Len(hresults) : hresults[i].found_by = <<"semantic", "keyword">>}
\* the weighted score each method alone would have given the entry at i
SemanticAlone(i) == halpha * hsem[hresults[i].index + 1]
KeywordAlone(i) == (100 - halpha) * hkw[hresults[i].index + 1]

\* C13 as stated: a result found by both methods scores strictly more than
\* the same chunk would with the semantic method alone or with the keyword
\* method alone.
C13_BothStrictlyGreater ==
  HybridReturned =>
    \A i \in FoundByBoth : hresults[i].score > SemanticAlone(i) /\ hresults[i].score > KeywordAlone(i)
\* C13 amended: a result found by both methods scores the sum of the two
\* weighted scores; that is never below the semantic-only score and above it
\* only when the keyword score is positive, and it is above, equal to or
\* below the keyword-only score as the semantic score is positive, zero or
\* negative.
C13_SumOfContributions ==
  HybridReturned =>
    \A i \in FoundByBoth :
      /\ hresults[i].score = SemanticAlone(i) + KeywordAlone(i)
      /\ hresults[i].score >= SemanticAlone(i)
      /\ hresults[i].score > SemanticAlone(i) <=> hkw[hresults[i].index + 1] > 0
      /\ hresults[i].score > KeywordAlone(i) <=> hsem[hresults[i].index + 1] > 0
      /\ hresults[i].score < KeywordAlone(i) <=> hsem[hresults[i].index + 1] < 0
C13_Witness ==
  /\ HybridReturned
  /\ chunks = 2
  /\ hk = 2
  /\ halpha = 30
  /\ hsem = <<-50, 50>>
  /\ hkw = <<0, 80>>
  /\ hresults = <<[index |-> 1, chunk |-> 1, score |-> 7100, found_by |-> <<"semantic", "keyword">>],
                  [index |-> 0, chunk |-> 0, score |-> -1500, found_by |-> <<"semantic", "keyword">>]>>

\* The two loops of search with the methods in the other order: the first
\* loop stores one entry per result of its list, the second adds to an entry
\* already present or inserts a new one.
RECURSIVE FirstPass(_, _, _, _, _)
FirstPass(all, rs, n, weight, tag) ==
  IF rs = <<>> THEN all
  ELSE LET r == Head(rs)
           e == [index |-> r.index, chunk |-> ChunkOf(n, r.index), score |-> weight * r.score, found_by |-> <<tag>>]
           p == PosOf(all, r.index)
       IN FirstPass(IF p = 0 THEN Append(all, e) ELSE [all EXCEPT ![p] = e], Tail(rs), n, weight, tag)
RECURSIVE SecondPass(_, _, _, _, _)
SecondPass(all, rs, n, weight, tag) ==
  IF rs = <<>> THEN all
  ELSE LET r == Head(rs)
           e == [index |-> r.index, chunk |-> ChunkOf(n, r.index), score |-> weight * r.score, found_by |-> <<tag>>]
           p == PosOf(all, r.index)
       IN SecondPass(IF p = 0 THEN Append(all, e)
                     ELSE [all EXCEPT ![p] = [@ EXCEPT !.score = @ + weight * r.score, !.found_by = Append(@, tag)]],
                     Tail(rs), n, weight, tag)
\* the keyword list merged first, the semantic list second, then the same
\* sort and truncation
FuseKeywordFirst(n, k, sem, kw, alpha) ==
  FirstK(SortDesc_from(SecondPass(FirstPass(<<>>, TopK(Len(kw), k, kw), n, 100 - alpha, "keyword"),
                                  FaissSearch(n, k, sem), n, alpha, "semantic"), <<>>), k)
\* a result list as a set of (chunk, score, set of methods)
FusedSet(rs) == {[chunk |-> rs[i].chunk, score |-> rs[i].score, found_by |-> Range(rs[i].found_by)] : i \in 1 .. Len(rs)}

\* C14: merging the keyword list first and the semantic list second gives
\* the same set of fused results (chunk, score, methods) as the order search
\* uses, semantic first and keyword second.
C14_FusionCommutative ==
  HybridReturned => FusedSet(hresults) = FusedSet(FuseKeywordFirst(chunks, hk, hsem, hkw, halpha))

\* the indices in the order search meets them: the semantic list, then the
\* keyword list
SeenOrder == [j \in 1 .. Len(SemanticResults) |-> SemanticResults[j].index] \o [j \in 1 .. Len(KeywordResults) |-> KeywordResults[j].index]
FirstSeen(idx) == CHOOSE j \in 1 .. Len(SeenOrder) : SeenOrder[j] = idx /\ \A m \in 1 .. j - 1 : SeenOrder[m] # idx

\* C15: search(query, k) returns at most k results, in descending score
\* order, and of two results with equal scores the one met first comes first.
C15_AtMostKDescending ==
  HybridReturned =>
    /\ Len(hresults) <= hk
    /\ \A i, j \in 1 .. Len(hresults) :
         i < j => \/ hresults[i].score > hresults[j].score
                  \/ /\ hresults[i].score = hresults[j].score
                     /\ FirstSeen(hresults[i].index) < FirstSeen(hresults[j].index)
C15_Witness ==
  /\ HybridReturned
  /\ chunks = 2
  /\ hk = 1
  /\ halpha = 30
  /\ hsem = <<100, 50>>
  /\ hkw = <<0, 80>>
  /\ hresults = <<[index |-> 1, chunk |-> 1, score |-> 5600, found_by |-> <<"keyword">>]>>

\* group_results_by_source has returned for the list gresults
Grouped == api = "group" /\ pc \in {"g_grouped", "done"}
\* the source key of a result: its metadata filename, compared as it is
SourceKey(r) == Get(r.metadata, "filename", "Unknown")
SourceKeys == {SourceKey(gresults[i]) : i \in 1 .. Len(gresults)}
\* the input results of one source, in input order
MembersOf(key) == SelectSeq(gresults, LAMBDA r : SourceKey(r) = key)

\* C16: there is exactly one group per distinct source key; a group's
\* passages are the texts of the input results of that source in input
\* order, so every passage is in exactly one group; a group's score is the
\* highest score among its members.
C16_OneGroupPerSource ==
  Grouped =>
    /\ {grouped[j].source : j \in 1 .. Len(grouped)} = SourceKeys
    /\ Len(grouped) = Cardinality(SourceKeys)
    /\ \A j \in 1 .. Len(grouped) :
         LET members == MembersOf(grouped[j].source)
         IN /\ grouped[j].passages = [m \in 1 .. Len(members) |-> members[m].text]
            /\ \E m \in 1 .. Len(members) : members[m].score = grouped[j].score
            /\ \A m \in 1 .. Len(members) : members[m].score <= grouped[j].score
C16_Witness ==
  /\ Grouped
  /\ Len(gresults) = 3
  /\ [i \in 1 .. 3 |-> SourceKey(gresults[i])] = <<"a.pdf", "A.pdf", "a.pdf">>
  /\ [i \in 1 .. 3 |-> gresults[i].score] = <<100, 100, 90>>
  /\ Len(grouped) = 2
  /\ grouped[1].source = "a.pdf" /\ grouped[1].passages = <<1, 3>> /\ grouped[1].score = 100
  /\ grouped[2].source = "A.pdf" /\ grouped[2].passages = <<2>> /\ grouped[2].score = 100

Regrouped == api = "group" /\ pc = "done"

\* C18: grouping the list group_results_by_source returned raises no error
\* and gives the same groups with the same members.
C18_GroupingIdempotent == Regrouped => (outcome = "returned" /\ regrouped = grouped)

\* C19: a transient failure of one remote call does not by itself fail the
\* request: a search in which no Drive call failed and one provider call
\* (genai.upload_file or generate_content) failed transiently does not raise.
C19_TransientRetried ==
  (SearchEnded /\ ~drive_failed /\ provider_fail = "transient") => outcome # "raised"

\* C20: in one corpus build no two chunk records of the index metadata have
\* the same id.
C20_UniqueChunkIds ==
  api = "build" => \A p, q \in 1 .. Len(meta_chunks) : p # q => meta_chunks[p].id # meta_chunks[q].id

\* C21: every retry loop follows the state machine: it waits in backoff only
\* after a transient failure with attempts remaining, and every wait was
\* followed by a new attempt, so that a loop that has ended started one
\* attempt more than it waited (no wait after the last attempt, none after a
\* success).
C21_RetryStateMachine ==
  /\ dpc = "backoff" => (lastFail = "transient" /\ retry_count < max_retries)
  /\ pc = "k_backoff" => (SlackCaught(k_last) /\ k_retry < slack_max_retries)
  /\ (dpc \in {"returned", "raised"} /\ attempts > 0) => waits = attempts - 1
  /\ task = "ended" => k_waits = k_attempts - 1

\* C22: the keyword index of a HybridSearcher is absent, or it is fitted and
\* its TF-IDF matrix has exactly one row per chunk of the corpus the
\* IndexStore holds now.
C22_KeywordIndexCurrent ==
  api = "hybrid" => (tfidf = "none" \/ (tfidf = "fitted" /\ tfidf_rows = chunks))

\* C23: while a request is inside a remote call the event-loop thread is
\* free, so the task of another request can take a step.
C23_LoopNeverBlocked == (api = "concurrent" /\ pc = "c_call") => loop_thread = "free"

\* the search task of the request is over
TaskOver == task \in {"ended", "cancelled", "crashed"}
\* the terminal messages the task posted: results, or one of the two errors
TerminalMessages == SelectSeq(channel, LAMBDA m : m \in {"results", "connection_issue", "unexpected"})

\* C24 as stated: the search-and-post sequence is attempted at most 3 times
\* and the request ends with exactly one terminal message, never two and
\* never none.
C24_ExactlyOneTerminal ==
  /\ k_attempts <= slack_max_retries
  /\ TaskOver => Len(TerminalMessages) = 1
\* C24 amended: at most 3 attempts and never two terminal messages; a task
\* that ended without its last post raising has posted exactly one: the
\* results after an attempt that succeeded, the connection-issue message
\* after 3 caught failures, the unexpected-error message after another
\* exception or after the connection-issue post raised; a task whose last
\* post raised, or that was cancelled in its backoff sleep, has posted none.
C24_AtMostOneTerminal ==
  /\ k_attempts <= slack_max_retries
  /\ Len(TerminalMessages) <= 1
  /\ task = "ended" => Len(TerminalMessages) = 1
  /\ task \in {"cancelled", "crashed"} => Len(TerminalMessages) = 0
  /\ TerminalMessages = <<"results">> => k_retry < slack_max_retries
  /\ TerminalMessages = <<"connection_issue">> => (k_retry = slack_max_retries /\ SlackCaught(k_last))
  /\ TerminalMessages = <<"unexpected">> => (k_last = "other" \/ k_retry = slack_max_retries)
C24_Witness ==
  /\ task = "ended"
  /\ k_attempts = slack_max_retries
  /\ k_retry = slack_max_retries
  /\ channel = <<"processing", "processing", "processing", "connection_issue">>

\* the route answered from its handler, after the verification call
AnsweredByHandler == http \in {"ok", "searching", "usage", "unknown"}

\* C25: a search task exists only for a request whose verification
\* succeeded: verify_slack_request returned for a fresh timestamp and a
\* valid signature before the task was created; the url_verification
\* challenge is the only answer given without verification and it starts no
\* search.
C25_SearchOnlyAfterVerification ==
  /\ task # "none" => (verified /\ request.timestamp = "fresh" /\ request.signature = "valid")
  /\ AnsweredByHandler => (verified /\ request.signature = "valid")
  /\ http = "challenge" => (task = "none" /\ ~verified /\ body_type = "url_verification")
  /\ (api = "slack" /\ pc = "done" /\ ~verified) => (task = "none" /\ channel = <<>>)
C25_Witness ==
  /\ route = "commands"
  /\ body_type = "/find"
  /\ verified
  /\ request = [timestamp |-> "fresh", signature |-> "valid"]
  /\ task = "ended"
  /\ channel = <<"processing", "results">>

\* C26: an upload_file call that has returned successfully has created
\* exactly one file, whatever transient failures occurred on the way.
C26_UploadCreatesOneFile == (dop = "upload_file" /\ dpc = "returned") => filesCreated = 1

\* the files of the folder, in listing order
FolderFiles == [i \in 1 .. folder |-> i]

\* C27: a list_files call that has returned has returned every file of the
\* folder exactly once, in listing order, also when a transient failure
\* interrupted the pagination.
C27_ListsEachFileOnce == (dop = "list_files" /\ dpc = "returned") => (dret = "value" /\ results = FolderFiles)
C27_Witness ==
  /\ dop = "list_files"
  /\ dpc = "returned"
  /\ folder = MaxDocs
  /\ tfails = 2
  /\ attempts = 3
  /\ results = FolderFiles

\* C28: the metadata of every result search returns belongs to the stored
\* document whose name equals the source the result names.
C28_MetadataOfNamedSource ==
  (SearchEnded /\ outcome = "returned") =>
    \A i \in 1 .. Len(smeta) :
      /\ smeta[i].actual_filename = smeta[i].filename
      /\ smeta[i].download_link = smeta[i].filename

C30_AtMostTwoResults ==
  SearchEnded =>
    /\ Len(sresults) <= 2
    /\ Len(sresults) * T_MIN <= TOP_P_THRESHOLD
C30_Witness ==
  /\ SearchEnded
  /\ outcome = "returned"
  /\ ParsedCandidates
  /\ Len(Threshold(Candidates)) = 3
  /\ Len(sresults) = 2

====
